---- MODULE Spec2Model ----
(***************************************************************************)
(* Model of the CMg dashboard repository:                                  *)
(*   - the two paginated fetch clients, fetch_all_pages (cmg_dashboard.py) *)
(*     and fetch_paginated (fetch_data.py), one step per HTTP request;     *)
(*   - the collector run main (fetch_data.py) built on fetch_paginated;    *)
(*   - the series alignment preparar_comparacion (cmg_dashboard.py);       *)
(*   - the storage merge actualizar_csv (fetch_data.py).                   *)
(***************************************************************************)
EXTENDS Integers, Sequences, FiniteSets

VARIABLES
    client,       \* which fetch function runs: "dashboard" | "collector"
    page,         \* local `page` of the running fetch
    intento,      \* index of the current attempt for `page` (0-based)
    all_records,  \* local `all_records` of the running fetch
    log,          \* every requests.get issued by the running fetch, with its answer
    fpc,          \* "idle" | "request" | "returned" | "raised"
    reported,     \* an error was reported (st.error / print)
    failures,     \* failing answers the API has given so far in this run
    df_real,      \* preparar_comparacion: argument df_real (Online rows)
    df_prog,      \* preparar_comparacion: argument df_prog (Programmed rows)
    barra_online, \* preparar_comparacion: argument barra_online
    real,         \* preparar_comparacion: local `real`, the hourly Online series
    prog,         \* preparar_comparacion: local `prog`
    merged,       \* preparar_comparacion: the returned frame
    cpc,          \* "idle" | "input" | "done"
    csv,          \* the files of DATA_DIR: file name -> file
    now,          \* the wall clock, in days
    nombre_archivo, \* actualizar_csv: argument of the last call ("none": no call yet)
    df_nuevo,     \* actualizar_csv: argument of the last call
    df_existente, \* actualizar_csv: local `df_existente` of the last call (<<>>: no file)
    corte,        \* actualizar_csv: local `corte` of the last call
    USER_KEY,     \* the credential CEN_TOKEN ("" when missing)
    mpc,          \* main: "idle" | "start" | "online" | "programado" | "done" | "raised"
    fecha_str,    \* main: the date of the running Online fetch, "hoy" | "ayer"
    fetched_records, \* fetch_online / fetch_programado: local `records` of the last fetch
    ultima,       \* the file ultima_actualizacion.txt
    events        \* main: what the run has done so far, in order

fetchVars == <<client, page, intento, all_records, log, fpc, reported, failures>>

cmpVars == <<df_real, df_prog, barra_online, real, prog, merged, cpc>>

csvVars == <<csv, now, nombre_archivo, df_nuevo, df_existente, corte>>

mainVars == <<USER_KEY, mpc, fecha_str, fetched_records, ultima, events>>

vars == <<fetchVars, cmpVars, csvVars, mainVars>>

----------------------------------------------------------------------------
(* Bounds of the model *)

\* page_size of the model (100 in fetch_all_pages, 500 in fetch_paginated)
PageSize == 2
\* the API holds at most this many pages: page MaxPage is never full
MaxPage == 2
\* failing answers (HTTP error, connection failure, malformed body) per run
MaxFailures == 4
\* rows of df_real and of df_prog handed to preparar_comparacion
MaxReal == 3
MaxProg == 2
\* rows of one batch handed to actualizar_csv
MaxBatch == 2
\* the last day of the wall clock
MaxNow == 10

----------------------------------------------------------------------------
(* Program constants *)

MAX_RETRIES == 3
DIAS_HISTORICO == 7
BACKOFF == <<10, 30, 60>>

Clients == {"dashboard", "collector"}

\* HTTP statuses raise_for_status turns into an HTTPError
ErrorStatuses == {500, 503, 404}

Is5xx(status) == status >= 500 /\ status <= 599
Is4xx(status) == status >= 400 /\ status <= 499

----------------------------------------------------------------------------
(* The parts of the program that are not running in a specification *)

FetchIdle ==
    /\ client = "none"
    /\ page = 0
    /\ intento = 0
    /\ all_records = <<>>
    /\ log = <<>>
    /\ fpc = "idle"
    /\ reported = FALSE
    /\ failures = 0

CmpIdle ==
    /\ df_real = <<>>
    /\ df_prog = <<>>
    /\ barra_online = "none"
    /\ real = <<>>
    /\ prog = <<>>
    /\ merged = <<>>
    /\ cpc = "idle"

\* a file of DATA_DIR that does not exist
NoFile == [exists |-> FALSE, rows |-> <<>>]

FileNames == {"cmg_online.csv", "cmg_programado.csv"}

CsvIdle ==
    /\ csv = [f \in FileNames |-> NoFile]
    /\ now = 0
    /\ nombre_archivo = "none"
    /\ df_nuevo = <<>>
    /\ df_existente = <<>>
    /\ corte = 0

\* ultima_actualizacion.txt: missing, or holding the time t it was written at
NoUltima == [exists |-> FALSE, time |-> 0]
UltimaAt(t) == [exists |-> TRUE, time |-> t]

MainIdle ==
    /\ USER_KEY = ""
    /\ mpc = "idle"
    /\ fecha_str = "none"
    /\ fetched_records = <<>>
    /\ ultima = NoUltima
    /\ events = <<>>

----------------------------------------------------------------------------
(* Answers of the API to one request *)

OkResp(recs)      == [kind |-> "ok", status |-> 200, recs |-> recs]
HTTPErrorResp(s)  == [kind |-> "http", status |-> s, recs |-> <<>>]
ConnErrorResp     == [kind |-> "conn", status |-> 0, recs |-> <<>>]
MalformedResp     == [kind |-> "malformed", status |-> 200, recs |-> <<>>]

\* the records of page p when it holds n of them
PageRecords(p, n) == [i \in 1..n |-> <<p, i>>]

\* the pages the API can answer for page number p
PagesOf(p) == {PageRecords(p, n) : n \in 0..(IF p < MaxPage THEN PageSize ELSE PageSize - 1)}

----------------------------------------------------------------------------
(* The state of a running fetch as a record, and the steps of the two clients *)

FetchState == [page |-> page, intento |-> intento, all_records |-> all_records,
               pc |-> fpc, reported |-> reported]

FetchStart == [page |-> 1, intento |-> 0, all_records |-> <<>>,
               pc |-> "request", reported |-> FALSE]

\* a fetch_all_pages that also stops on a full page (`<=` for `<`)
DashLastPageOffByOne(records) == Len(records) <= PageSize

\* `len(records) < page_size` of fetch_all_pages
DashLastPage(records) == Len(records) < PageSize

\* `len(records) < page_size` of fetch_paginated
CollLastPage(records) == Len(records) < PageSize

\* fetch_all_pages after a 200 answer whose body parsed: lines 103-112
DashOnRecords(f, records) ==
    IF records = <<>>
    THEN [f EXCEPT !.pc = "returned"]
    ELSE IF DashLastPage(records)
         THEN [f EXCEPT !.all_records = @ \o records, !.pc = "returned"]
         ELSE [f EXCEPT !.all_records = @ \o records, !.page = @ + 1, !.intento = 0]

\* fetch_all_pages on an HTTPError: lines 86-92
DashOnHTTPError(f, status) ==
    IF status = 500 /\ f.intento < MAX_RETRIES - 1
    THEN [f EXCEPT !.intento = @ + 1]
    ELSE [f EXCEPT !.pc = "returned", !.reported = TRUE]

\* fetch_all_pages on any other RequestException: lines 93-95
DashOnConnError(f) == [f EXCEPT !.pc = "returned", !.reported = TRUE]

\* fetch_all_pages on a body that is not JSON: lines 97-101
DashOnMalformed(f) == [f EXCEPT !.pc = "returned", !.reported = TRUE]

\* fetch_paginated after a 200 answer whose body parsed: lines 76-83
CollOnRecords(f, records) ==
    IF records = <<>>
    THEN [f EXCEPT !.pc = "returned"]
    ELSE IF CollLastPage(records)
         THEN [f EXCEPT !.all_records = @ \o records, !.pc = "returned"]
         ELSE [f EXCEPT !.all_records = @ \o records, !.page = @ + 1, !.intento = 0]

\* fetch_paginated on an HTTPError: lines 66-71 (any status; the loop goes on
\* to the next entry of [0] + BACKOFF unless this was the last one)
CollOnHTTPError(f, status) ==
    IF f.intento = Len(BACKOFF)
    THEN [f EXCEPT !.pc = "returned", !.reported = TRUE]
    ELSE [f EXCEPT !.intento = @ + 1, !.reported = TRUE]

\* fetch_paginated on any other RequestException: lines 72-74
CollOnConnError(f) == [f EXCEPT !.pc = "returned", !.reported = TRUE]

\* fetch_paginated on a body that is not JSON: r.json() at line 76 is outside
\* every try block, so the JSONDecodeError leaves the function
CollOnMalformed(f) == [f EXCEPT !.pc = "raised"]

\* what the running client does with one answer
FetchStep(c, f, resp) ==
    CASE resp.kind = "ok" ->
           IF c = "dashboard" THEN DashOnRecords(f, resp.recs) ELSE CollOnRecords(f, resp.recs)
      [] resp.kind = "http" ->
           IF c = "dashboard" THEN DashOnHTTPError(f, resp.status)
                              ELSE CollOnHTTPError(f, resp.status)
      [] resp.kind = "conn" ->
           IF c = "dashboard" THEN DashOnConnError(f) ELSE CollOnConnError(f)
      [] resp.kind = "malformed" ->
           IF c = "dashboard" THEN DashOnMalformed(f) ELSE CollOnMalformed(f)

\* one requests.get of the running fetch, answered by resp
Request(resp) ==
    /\ fpc = "request"
    /\ log' = Append(log, [page |-> page, intento |-> intento, resp |-> resp])
    /\ failures' = IF resp.kind = "ok" THEN failures ELSE failures + 1
    /\ LET g == FetchStep(client, FetchState, resp) IN
         /\ page' = g.page
         /\ intento' = g.intento
         /\ all_records' = g.all_records
         /\ fpc' = g.pc
         /\ reported' = g.reported
    /\ UNCHANGED <<client, cmpVars, csvVars, mainVars>>

RequestOk == \E recs \in PagesOf(page) : Request(OkResp(recs))

RequestHTTPError ==
    /\ failures < MaxFailures
    /\ \E s \in ErrorStatuses : Request(HTTPErrorResp(s))

RequestConnError ==
    /\ failures < MaxFailures
    /\ Request(ConnErrorResp)

RequestMalformed ==
    /\ failures < MaxFailures
    /\ Request(MalformedResp)

FetchInit ==
    /\ client \in Clients
    /\ page = FetchStart.page
    /\ intento = FetchStart.intento
    /\ all_records = FetchStart.all_records
    /\ fpc = FetchStart.pc
    /\ reported = FetchStart.reported
    /\ log = <<>>
    /\ failures = 0
    /\ CmpIdle
    /\ CsvIdle
    /\ MainIdle

FetchNext ==
    \/ RequestOk
    \/ RequestHTTPError
    \/ RequestConnError
    \/ RequestMalformed

\* one call of fetch_all_pages or of fetch_paginated against any API behaviour
SpecFetch == FetchInit /\ [][FetchNext]_vars

----------------------------------------------------------------------------
(* Numbers: a float is modelled by an exact fraction n/d with d > 0, and    *)
(* the non-finite floats by d = 0: NaN = 0/0, +inf = 1/0, -inf = -1/0.      *)

Abs(x) == IF x < 0 THEN -x ELSE x

RECURSIVE GCD(_, _)
GCD(a, b) == IF b = 0 THEN a ELSE GCD(b, a % b)

NaN    == [n |-> 0, d |-> 0]
PosInf == [n |-> 1, d |-> 0]
NegInf == [n |-> -1, d |-> 0]

IsNaN(x)    == x.d = 0 /\ x.n = 0
IsFinite(x) == x.d > 0

\* the fraction n/d, d # 0, in lowest terms with a positive denominator
Frac(n, d) ==
    LET g == GCD(Abs(n), Abs(d))
        sg == IF d < 0 THEN -1 ELSE 1
    IN [n |-> sg * (n \div g), d |-> sg * (d \div g)]

Num(v) == [n |-> v, d |-> 1]

\* x - y for a finite y: NaN and the infinities propagate
FSub(x, y) ==
    IF ~IsFinite(x) THEN x
    ELSE IF ~IsFinite(y) THEN (IF IsNaN(y) THEN NaN ELSE [n |-> -y.n, d |-> 0])
    ELSE Frac(x.n * y.d - y.n * x.d, x.d * y.d)

\* x * y
FMul(x, y) ==
    IF IsNaN(x) \/ IsNaN(y) THEN NaN
    ELSE IF ~IsFinite(x) \/ ~IsFinite(y)
         THEN (IF x.n * y.n = 0 THEN NaN
               ELSE IF x.n * y.n > 0 THEN PosInf ELSE NegInf)
    ELSE Frac(x.n * y.n, x.d * y.d)

\* x / y as numpy divides floats: x/0 is +-inf, 0/0 is NaN, never an error
FDiv(x, y) ==
    IF IsNaN(x) \/ IsNaN(y) THEN NaN
    ELSE IF ~IsFinite(y) THEN (IF IsFinite(x) THEN Num(0) ELSE NaN)
    ELSE IF y.n = 0
         THEN (IF x.n = 0 THEN NaN ELSE IF x.n > 0 THEN PosInf ELSE NegInf)
    ELSE IF ~IsFinite(x) THEN (IF x.n * y.n > 0 THEN PosInf ELSE NegInf)
    ELSE Frac(x.n * y.d, x.d * y.n)

RECURSIVE SumSeq(_)
SumSeq(s) == IF s = <<>> THEN 0 ELSE s[1] + SumSeq(Tail(s))

\* .mean() of one resample bin: NaN for an empty bin
Mean(values) ==
    IF values = <<>> THEN NaN ELSE Frac(SumSeq(values), Len(values))

----------------------------------------------------------------------------
(* preparar_comparacion (cmg_dashboard.py)                                  *)

\* timestamps are minutes; "1h"
MinutesPerHour == 60

\* dt.floor("1h")
Floor1h(t) == t - (t % MinutesPerHour)

\* two of the eight entries of BARRAS, and a station that is not a key of it
BARRAS == [b \in {"P.MONTT_______220", "CHARRUA_______220"} |->
             IF b = "P.MONTT_______220" THEN "PMontt220" ELSE "Charrua220"]

\* the rows the API can give for the comparison
RealRowPool ==
    {[datetime |-> t, barra_online |-> "P.MONTT_______220", cmg_real |-> v] :
        t \in {0, 15, 60, 120}, v \in {10, 20}}
    \cup {[datetime |-> 60, barra_online |-> "CHARRUA_______220", cmg_real |-> 40]}

ProgRowPool ==
    {[datetime |-> t, barra_prog |-> "PMontt220", cmg_programado |-> v] :
        t \in {0, 60, 120}, v \in {0, 20}}
    \cup {[datetime |-> 60, barra_prog |-> "Charrua220", cmg_programado |-> 20]}

\* position of a station name in the sort order of strings
BarraRank(b) ==
    CASE b \in {"CHARRUA_______220", "Charrua220"} -> 1
      [] b \in {"P.MONTT_______220", "PMontt220"} -> 2

\* sort_values(["barra_online", "datetime"]) of fetch_cmg_online
SortedReal(s) ==
    \A i \in 1..(Len(s) - 1) :
        \/ BarraRank(s[i].barra_online) < BarraRank(s[i + 1].barra_online)
        \/ /\ s[i].barra_online = s[i + 1].barra_online
           /\ s[i].datetime <= s[i + 1].datetime

\* sort_values(["barra_prog", "datetime"]) of fetch_cmg_programado
SortedProg(s) ==
    \A i \in 1..(Len(s) - 1) :
        \/ BarraRank(s[i].barra_prog) < BarraRank(s[i + 1].barra_prog)
        \/ /\ s[i].barra_prog = s[i + 1].barra_prog
           /\ s[i].datetime <= s[i + 1].datetime

SeqsUpTo(S, k) == UNION {[1..m -> S] : m \in 0..k}

RealInputs == {s \in SeqsUpTo(RealRowPool, MaxReal) : SortedReal(s)}
ProgInputs == {s \in SeqsUpTo(ProgRowPool, MaxProg) : SortedProg(s)}

\* the scenario of the specification: four samples in one hour, programmed 20
ScenarioReal ==
    [i \in 1..4 |-> [datetime |-> 15 * (i - 1), barra_online |-> "P.MONTT_______220",
                     cmg_real |-> 10 * i]]
ScenarioProg ==
    <<[datetime |-> 0, barra_prog |-> "PMontt220", cmg_programado |-> 20]>>

MinOf(S) == CHOOSE y \in S : \A z \in S : y <= z
MaxOf(S) == CHOOSE y \in S : \A z \in S : z <= y

\* the cmg_real values of the rows whose timestamp lies in the bin [h, h + 1h)
BinValues(rows, h) ==
    LET inBin == SelectSeq(rows, LAMBDA r : h <= r.datetime /\ r.datetime < h + MinutesPerHour)
    IN [i \in 1..Len(inBin) |-> inBin[i].cmg_real]

\* .resample("1h").mean().reset_index(): one row for EVERY hour from the
\* hour of the first sample to the hour of the last, the mean of an hour
\* without samples being NaN
Resample(rows) ==
    IF rows = <<>> THEN <<>>
    ELSE LET times == {rows[i].datetime : i \in 1..Len(rows)}
             first == Floor1h(MinOf(times))
             last  == Floor1h(MaxOf(times))
             bins  == (last - first) \div MinutesPerHour + 1
         IN [k \in 1..bins |->
               LET h == first + (k - 1) * MinutesPerHour
               IN [datetime |-> Floor1h(h), cmg_real |-> Mean(BinValues(rows, h))]]

\* lines 202-209
HourlyOnline(dfr, b) ==
    Resample(SelectSeq(dfr, LAMBDA r : r.barra_online = b))

\* lines 212-216
FilterProg(dfp, bp) ==
    LET sel == SelectSeq(dfp, LAMBDA r : r.barra_prog = bp)
    IN [i \in 1..Len(sel) |->
          [datetime |-> Floor1h(sel[i].datetime), cmg_programado |-> Num(sel[i].cmg_programado)]]

\* pd.merge(left, right, on="datetime", how="inner"): the left rows in order,
\* each joined with every right row of the same datetime, in right order
RECURSIVE InnerMerge(_, _)
InnerMerge(left, right) ==
    IF left = <<>> THEN <<>>
    ELSE LET l == left[1]
             m == SelectSeq(right, LAMBDA r : r.datetime = l.datetime)
         IN [i \in 1..Len(m) |->
               [datetime |-> l.datetime, cmg_real |-> l.cmg_real,
                cmg_programado |-> m[i].cmg_programado]]
            \o InnerMerge(Tail(left), right)

\* a preparar_comparacion without .replace(0, float("nan"))
ReplaceZeroForgotten(x) == x

\* .replace(0, float("nan")) on one value
ReplaceZeroByNaN(x) == IF IsFinite(x) /\ x.n = 0 THEN NaN ELSE x

\* lines 220-223
WithDifferences(m) ==
    [i \in 1..Len(m) |->
        LET dif == FSub(m[i].cmg_real, m[i].cmg_programado)
        IN [datetime |-> m[i].datetime,
            cmg_real |-> m[i].cmg_real,
            cmg_programado |-> m[i].cmg_programado,
            diferencia |-> dif,
            diferencia_pct |->
                FMul(FDiv(dif, ReplaceZeroByNaN(m[i].cmg_programado)), Num(100))]]

PrepararComparacion ==
    /\ cpc = "input"
    /\ real' = HourlyOnline(df_real, barra_online)
    /\ prog' = FilterProg(df_prog, BARRAS[barra_online])
    /\ merged' = WithDifferences(InnerMerge(real', prog'))
    /\ cpc' = "done"
    /\ UNCHANGED <<df_real, df_prog, barra_online, fetchVars, csvVars, mainVars>>

CmpInit ==
    /\ \E in \in (RealInputs \X ProgInputs) \cup {<<ScenarioReal, ScenarioProg>>} :
          df_real = in[1] /\ df_prog = in[2]
    /\ barra_online \in DOMAIN BARRAS
    /\ real = <<>>
    /\ prog = <<>>
    /\ merged = <<>>
    /\ cpc = "input"
    /\ FetchIdle
    /\ CsvIdle
    /\ MainIdle

CmpNext == PrepararComparacion

\* one call of preparar_comparacion on any pair of fetched frames
SpecCmp == CmpInit /\ [][CmpNext]_vars

----------------------------------------------------------------------------
(* actualizar_csv (fetch_data.py). A row is [datetime, barra, cmg]: barra   *)
(* is the column barra_online or barra_prog the duplicates are keyed on,    *)
(* datetime is a day number.                                                *)

\* the rows a fetched frame can hold
StoreRowPool ==
    {[datetime |-> 1, barra |-> "P.MONTT_______220", cmg |-> 10],
     [datetime |-> 2, barra |-> "P.MONTT_______220", cmg |-> 10],
     [datetime |-> 2, barra |-> "P.MONTT_______220", cmg |-> 20],
     [datetime |-> 2, barra |-> "CHARRUA_______220", cmg |-> 10],
     [datetime |-> 3, barra |-> "P.MONTT_______220", cmg |-> 10]}

SameKey(a, b) == a.datetime = b.datetime /\ a.barra = b.barra

\* a < b in the order of sort_values(["barra_online", "datetime"])
LessBarraDatetime(a, b) ==
    \/ BarraRank(a.barra) < BarraRank(b.barra)
    \/ a.barra = b.barra /\ a.datetime < b.datetime

\* a < b in the order of sort_values([col_datetime, "barra_online"])
LessDatetimeBarra(a, b) ==
    \/ a.datetime < b.datetime
    \/ a.datetime = b.datetime /\ BarraRank(a.barra) < BarraRank(b.barra)

RowLess(order, a, b) ==
    IF order = "barra_datetime" THEN LessBarraDatetime(a, b) ELSE LessDatetimeBarra(a, b)

\* x put into the sorted s behind every row that is not greater (stable)
RECURSIVE InsertRow(_, _, _)
InsertRow(order, s, x) ==
    IF s = <<>> THEN <<x>>
    ELSE IF RowLess(order, x, s[1]) THEN <<x>> \o s
    ELSE <<s[1]>> \o InsertRow(order, Tail(s), x)

\* sort_values on two columns
RECURSIVE SortValues(_, _)
SortValues(order, s) ==
    IF s = <<>> THEN <<>>
    ELSE InsertRow(order, SortValues(order, SubSeq(s, 1, Len(s) - 1)), s[Len(s)])

\* the frames fetch_online / fetch_programado hand to actualizar_csv: not
\* empty, sorted by station and timestamp (fetch_data.py:131, 154)
Batches ==
    {s \in SeqsUpTo(StoreRowPool, MaxBatch) :
        s # <<>> /\ \A i \in 1..(Len(s) - 1) : ~LessBarraDatetime(s[i + 1], s[i])}

\* to_csv writes a Timestamp as text, read_csv(parse_dates=...) parses it
StrDatetime(d) == [text |-> d]
ParseDates(t) == t.text

\* df.to_csv(ruta, index=False)
to_csv(df) ==
    [exists |-> TRUE,
     rows |-> [i \in 1..Len(df) |-> [df[i] EXCEPT !.datetime = StrDatetime(@)]]]

\* pd.read_csv(ruta, parse_dates=[col_datetime])
read_csv(file) ==
    [i \in 1..Len(file.rows) |-> [file.rows[i] EXCEPT !.datetime = ParseDates(@)]]

\* an actualizar_csv without .drop_duplicates(...)
DropDuplicatesForgotten(s) == s

\* keep="first" in place of keep="last": the first row of each key is kept
RECURSIVE DropDuplicatesKeepFirst(_)
DropDuplicatesKeepFirst(s) ==
    IF s = <<>> THEN <<>>
    ELSE LET front == SubSeq(s, 1, Len(s) - 1) IN
         IF \E j \in 1..Len(front) : SameKey(front[j], s[Len(s)])
         THEN DropDuplicatesKeepFirst(front)
         ELSE DropDuplicatesKeepFirst(front) \o <<s[Len(s)]>>

\* .drop_duplicates(subset=subset_dedup, keep="last")
RECURSIVE DropDuplicates(_)
DropDuplicates(s) ==
    IF s = <<>> THEN <<>>
    ELSE IF \E j \in 2..Len(s) : SameKey(s[1], s[j])
         THEN DropDuplicates(Tail(s))
         ELSE <<s[1]>> \o DropDuplicates(Tail(s))

\* the cut left out: every row is kept
RecortarForgotten(s, c) == s

\* df_combinado[df_combinado[col_datetime] >= corte]
Recortar(s, c) == SelectSeq(s, LAMBDA r : r.datetime >= c)

\* lines 168-192 with `corte` given
MergeAndPrune(file, nuevo, c) ==
    LET df_combinado == IF file.exists THEN read_csv(file) \o nuevo ELSE nuevo
    IN to_csv(Recortar(SortValues("datetime_barra", DropDuplicates(df_combinado)), c))

\* pd.Timestamp.now() - pd.Timedelta(days=DIAS_HISTORICO)
Corte(t) == t - DIAS_HISTORICO

\* lines 168-169: what the call reads from the file it finds
Existente(file) == IF file.exists THEN read_csv(file) ELSE <<>>

\* actualizar_csv(nombre, nuevo) at time t: the files afterwards
actualizar_csv(files, nombre, nuevo, t) ==
    [files EXCEPT ![nombre] = MergeAndPrune(@, nuevo, Corte(t))]

ActualizarCsv ==
    /\ \E b \in Batches :
          /\ csv' = actualizar_csv(csv, "cmg_online.csv", b, now)
          /\ df_nuevo' = b
    /\ df_existente' = Existente(csv["cmg_online.csv"])
    /\ nombre_archivo' = "cmg_online.csv"
    /\ corte' = Corte(now)
    /\ UNCHANGED <<now, fetchVars, cmpVars, mainVars>>

\* time passes between two calls
Tick ==
    /\ now < MaxNow
    /\ now' = now + 1
    /\ UNCHANGED <<csv, nombre_archivo, df_nuevo, df_existente, corte, fetchVars, cmpVars,
                   mainVars>>

CsvInit ==
    /\ csv = [f \in FileNames |-> NoFile]
    /\ now = DIAS_HISTORICO + 1
    /\ nombre_archivo = "none"
    /\ df_nuevo = <<>>
    /\ df_existente = <<>>
    /\ corte = 0
    /\ FetchIdle
    /\ CmpIdle
    /\ MainIdle

CsvNext ==
    \/ ActualizarCsv
    \/ Tick

\* any sequence of actualizar_csv calls on the Online file, from no file
SpecCsv == CsvInit /\ [][CsvNext]_vars

----------------------------------------------------------------------------
(* The collector run: main, fetch_online, fetch_programado (fetch_data.py). *)
(* One action is one requests.get of the running fetch_paginated together   *)
(* with everything main does with its answer up to the next requests.get.   *)

\* two of the eight entries of the collector's BARRAS: fragment -> llave_cmg
BARRAS_fragmentos == [k \in {"PUERTO MONTT", "CHARRUA"} |->
                        IF k = "PUERTO MONTT" THEN "PMontt220" ELSE "Charrua220"]

\* encontrar_barra: the first fragment of BARRAS the name contains
EncontrarBarra(nombre_info) ==
    CASE nombre_info = "BA S/E PUERTO MONTT 220KV" -> "PUERTO MONTT"
      [] nombre_info = "BA S/E CHARRUA 220KV" -> "CHARRUA"
      [] OTHER -> "None"

\* lines 96-131 of fetch_online
fetch_online_frame(records) ==
    IF records = <<>> THEN <<>>
    ELSE LET kept == SelectSeq(records, LAMBDA r : EncontrarBarra(r.barra_info) # "None")
         IN SortValues("barra_datetime",
                [i \in 1..Len(kept) |->
                    [datetime |-> kept[i].datetime, barra |-> kept[i].barra_transf,
                     cmg |-> kept[i].cmg]])

\* lines 139-154 of fetch_programado
fetch_programado_frame(records) ==
    IF records = <<>> THEN <<>>
    ELSE LET barras_prog == {BARRAS_fragmentos[k] : k \in DOMAIN BARRAS_fragmentos}
             kept == SelectSeq(records, LAMBDA r : r.llave_cmg \in barras_prog)
         IN SortValues("barra_datetime",
                [i \in 1..Len(kept) |->
                    [datetime |-> kept[i].datetime, barra |-> kept[i].llave_cmg,
                     cmg |-> kept[i].cmg]])

\* the records the Online endpoint can hold for day d
OnlineRecords(d) ==
    {[datetime |-> d, barra_info |-> "BA S/E PUERTO MONTT 220KV",
      barra_transf |-> "P.MONTT_______220", cmg |-> 20],
     [datetime |-> d, barra_info |-> "BA S/E OTRA 110KV",
      barra_transf |-> "OTRA__________110", cmg |-> 20]}

\* the records the Programmed endpoint can hold for the days up to d
ProgramadoRecords(d) ==
    {[datetime |-> d, llave_cmg |-> "PMontt220", cmg |-> 20],
     [datetime |-> d, llave_cmg |-> "Otra110", cmg |-> 20]}

\* hoy, ayer
DayOf(fecha) == IF fecha = "hoy" THEN now ELSE now - 1

\* the answers the API can give to the request main is waiting for: a page
\* of 0..page_size copies of one record of the endpoint
MainPages ==
    LET pool == IF mpc = "online" THEN OnlineRecords(DayOf(fecha_str))
                ELSE ProgramadoRecords(now - 1)
        most == IF page < MaxPage THEN PageSize ELSE PageSize - 1
    IN {[i \in 1..n |-> r] : n \in 0..most, r \in pool}

\* the stored files a run can find: none, or what earlier runs wrote
OldRow(b)    == [datetime |-> now - DIAS_HISTORICO - 1, barra |-> b, cmg |-> 10]
RecentRow(b) == [datetime |-> now - 1, barra |-> b, cmg |-> 10]
StoredBefore(b) == {NoFile, to_csv(<<OldRow(b)>>), to_csv(<<OldRow(b), RecentRow(b)>>)}

MainState ==
    [pc |-> mpc, fecha |-> fecha_str, csv |-> csv, ultima |-> ultima, events |-> events,
     nombre_archivo |-> nombre_archivo, df_nuevo |-> df_nuevo,
     df_existente |-> df_existente, corte |-> corte]

\* actualizar_csv called by main
MainActualizar(m, nombre, df) ==
    [m EXCEPT !.csv = actualizar_csv(@, nombre, df, now),
              !.nombre_archivo = nombre,
              !.df_nuevo = df,
              !.df_existente = Existente(m.csv[nombre]),
              !.corte = Corte(now),
              !.events = Append(@, <<"actualizar_csv", nombre>>)]

\* line 227: the Programmed fetch starts
MainStartProgramado(m) ==
    [m EXCEPT !.pc = "programado", !.events = Append(@, <<"fetch_programado">>)]

\* lines 219-227 once fetch_online's fetch_paginated has returned records
MainAfterOnline(m, records) ==
    LET df_online == fetch_online_frame(records) IN
    IF df_online # <<>>
    THEN MainStartProgramado(MainActualizar(m, "cmg_online.csv", df_online))
    ELSE IF m.fecha = "hoy"
         THEN [m EXCEPT !.fecha = "ayer", !.events = Append(@, <<"fetch_online", "ayer">>)]
         ELSE MainStartProgramado(m)

\* lines 227-237 once fetch_programado's fetch_paginated has returned records
MainAfterProgramado(m, records) ==
    LET df_prog_new == fetch_programado_frame(records)
        m2 == IF df_prog_new # <<>>
              THEN MainActualizar(m, "cmg_programado.csv", df_prog_new)
              ELSE m
    IN [m2 EXCEPT !.pc = "done", !.ultima = UltimaAt(now),
                  !.events = Append(@, <<"write_ultima">>)]

MainAfterFetch(m, records) ==
    IF m.pc = "online" THEN MainAfterOnline(m, records) ELSE MainAfterProgramado(m, records)

SetFetch(g) ==
    /\ page' = g.page
    /\ intento' = g.intento
    /\ all_records' = g.all_records
    /\ fpc' = g.pc
    /\ reported' = g.reported

SetMain(m) ==
    /\ mpc' = m.pc
    /\ fecha_str' = m.fecha
    /\ csv' = m.csv
    /\ ultima' = m.ultima
    /\ events' = m.events
    /\ nombre_archivo' = m.nombre_archivo
    /\ df_nuevo' = m.df_nuevo
    /\ df_existente' = m.df_existente
    /\ corte' = m.corte

\* lines 197-219: the credential check, then the first Online fetch starts
MainStart ==
    /\ mpc = "start"
    /\ IF USER_KEY = ""
       THEN /\ mpc' = "raised"
            /\ UNCHANGED <<fetchVars, fecha_str, events>>
       ELSE /\ mpc' = "online"
            /\ fecha_str' = "hoy"
            /\ events' = <<<<"fetch_online", "hoy">>>>
            /\ client' = "collector"
            /\ SetFetch(FetchStart)
            /\ UNCHANGED <<log, failures>>
    /\ UNCHANGED <<USER_KEY, fetched_records, ultima, csvVars, cmpVars>>

\* one requests.get of the fetch main is running, answered by resp (the run
\* keeps no log of its requests: `events` is its history)
MainRequest(resp) ==
    /\ mpc \in {"online", "programado"}
    /\ fpc = "request"
    /\ failures' = IF resp.kind = "ok" THEN failures ELSE failures + 1
    /\ LET g == FetchStep(client, FetchState, resp)
       IN CASE g.pc = "request" ->
                 /\ SetFetch(g)
                 /\ UNCHANGED <<mpc, fecha_str, fetched_records, csv, ultima, events,
                                nombre_archivo, df_nuevo, df_existente, corte>>
            [] g.pc = "raised" ->
                 /\ SetFetch(g)
                 /\ mpc' = "raised"
                 /\ UNCHANGED <<fecha_str, fetched_records, csv, ultima, events, nombre_archivo,
                                df_nuevo, df_existente, corte>>
            [] g.pc = "returned" ->
                 LET m == MainAfterFetch(MainState, g.all_records) IN
                 /\ SetMain(m)
                 /\ fetched_records' = g.all_records
                 /\ IF m.pc = "done" THEN SetFetch(g) ELSE SetFetch(FetchStart)
    /\ UNCHANGED <<client, log, USER_KEY, now, cmpVars>>

MainRequestOk == \E recs \in MainPages : MainRequest(OkResp(recs))

MainRequestHTTPError ==
    /\ failures < MaxFailures
    /\ \E s \in ErrorStatuses : MainRequest(HTTPErrorResp(s))

MainRequestConnError ==
    /\ failures < MaxFailures
    /\ MainRequest(ConnErrorResp)

MainRequestMalformed ==
    /\ failures < MaxFailures
    /\ MainRequest(MalformedResp)

MainInit ==
    /\ USER_KEY \in {"", "token"}
    /\ mpc = "start"
    /\ fecha_str = "none"
    /\ fetched_records = <<>>
    /\ now = DIAS_HISTORICO + 3
    /\ ultima \in {NoUltima, UltimaAt(now - 1)}
    /\ \E on \in StoredBefore("P.MONTT_______220"), pr \in StoredBefore("PMontt220") :
          csv = [f \in FileNames |-> IF f = "cmg_online.csv" THEN on ELSE pr]
    /\ events = <<>>
    /\ nombre_archivo = "none"
    /\ df_nuevo = <<>>
    /\ df_existente = <<>>
    /\ corte = 0
    /\ FetchIdle
    /\ CmpIdle

MainNext ==
    \/ MainStart
    \/ MainRequestOk
    \/ MainRequestHTTPError
    \/ MainRequestConnError
    \/ MainRequestMalformed

\* one run of the collector against any behaviour of the API
SpecMain == MainInit /\ [][MainNext]_vars

----------------------------------------------------------------------------
(* Properties of the fetch clients *)

\* the records of the answered pages of a log, in the order of the requests
RECURSIVE Accumulated(_)
Accumulated(l) ==
    IF l = <<>> THEN <<>>
    ELSE Accumulated(SubSeq(l, 1, Len(l) - 1)) \o l[Len(l)].resp.recs

AllOk == \A i \in 1..Len(log) : log[i].resp.kind = "ok"

LastAnswerShort == Len(log) > 0 /\ Len(log[Len(log)].resp.recs) < PageSize

\* C1: in both clients, while every request succeeds, the i-th request asks
\* for page i, no request follows a page shorter than page_size, the fetch
\* has returned exactly when the last page was short, and the accumulated
\* list is the concatenation of the requested pages in page order.
C1_SequentialPages ==
    AllOk =>
        /\ \A i \in 1..Len(log) : log[i].page = i /\ log[i].intento = 0
        /\ \A i \in 1..(Len(log) - 1) : Len(log[i].resp.recs) = PageSize
        /\ (fpc = "returned") <=> LastAnswerShort
        /\ fpc \in {"request", "returned"}
        /\ ~reported
        /\ all_records = Accumulated(log)

\* a fetch of the dashboard client that read one full page and one short page
C1_Witness ==
    /\ client = "dashboard"
    /\ AllOk
    /\ Len(log) = 2
    /\ fpc = "returned"
    /\ Len(all_records) = PageSize + 1

\* the attempt counts the clients are said to have
ClaimedAttempts(c) == IF c = "dashboard" THEN 3 ELSE 4

Is5xxAnswer(e) == e.resp.kind = "http" /\ Is5xx(e.resp.status)
Is4xxAnswer(e) == e.resp.kind = "http" /\ Is4xx(e.resp.status)

\* request i was the end of the fetch: it returned the records of the pages
\* before it, reported the error and did not raise
AbortedAt(i) ==
    /\ i = Len(log)
    /\ fpc = "returned"
    /\ reported
    /\ all_records = Accumulated(SubSeq(log, 1, i - 1))

\* the request after request i is the next attempt for the same page
RetriedAfter(i) ==
    IF i < Len(log)
    THEN log[i + 1].page = log[i].page /\ log[i + 1].intento = log[i].intento + 1
    ELSE fpc = "request" /\ page = log[i].page /\ intento = log[i].intento + 1

\* C2: in both clients every 5xx answer is followed by another attempt for
\* the same page until the client's attempt count (3 resp. 4) is used up,
\* and the last failed attempt ends the fetch with the records of the
\* earlier pages, the error reported, nothing raised.
C2_RetryOn5xx ==
    \A i \in 1..Len(log) :
        Is5xxAnswer(log[i]) =>
            IF log[i].intento + 1 < ClaimedAttempts(client)
            THEN RetriedAfter(i)
            ELSE AbortedAt(i)

\* requests i, i+1, i+2 are the first three attempts for one page and all
\* three were answered with HTTP 500
ThreeTimes500(i) ==
    /\ i + 2 <= Len(log)
    /\ log[i].intento = 0
    /\ \A j \in i..(i + 2) : log[j].resp = HTTPErrorResp(500) /\ log[j].page = log[i].page

\* C3: in both clients, after three consecutive HTTP 500 answers for a page
\* the client makes a further attempt for that page, and when that attempt
\* is answered with a 200 its records are in the result (on page 1 the
\* result is exactly that page's records).
C3_SuccessAfterThree500 ==
    \A i \in 1..Len(log) :
        ThreeTimes500(i) =>
            /\ RetriedAfter(i + 2)
            /\ (Len(log) = i + 3 /\ log[i + 3].resp.kind = "ok") =>
                   all_records = Accumulated(SubSeq(log, 1, i - 1)) \o log[i + 3].resp.recs

\* C4: in both clients a 4xx answer or a connection failure is the last
\* request of the fetch: no retry, no later page, the records of the earlier
\* pages returned, the error reported, nothing raised.
C4_AbortOnNonRetryable ==
    \A i \in 1..Len(log) :
        (Is4xxAnswer(log[i]) \/ log[i].resp.kind = "conn") => AbortedAt(i)

\* C5: in both clients a 200 answer whose body is not JSON is the last
\* request of the fetch, adds no record, and the fetch returns the records
\* of the earlier pages without raising.
C5_MalformedIsFetchFailure ==
    \A i \in 1..Len(log) :
        log[i].resp.kind = "malformed" =>
            /\ i = Len(log)
            /\ fpc = "returned"
            /\ all_records = Accumulated(SubSeq(log, 1, i - 1))

----------------------------------------------------------------------------
(* Properties of preparar_comparacion *)

\* the hours of the model's timestamps
CmpHours == {h \in 0..180 : Floor1h(h) = h}

\* the Online samples of the selected station whose floored timestamp is h
SamplesOfHour(h) ==
    SelectSeq(df_real, LAMBDA r : r.barra_online = barra_online /\ Floor1h(r.datetime) = h)

SampleValues(h) == [i \in 1..Len(SamplesOfHour(h)) |-> SamplesOfHour(h)[i].cmg_real]

\* the rows of the hourly Online series for hour h
RealRowsOfHour(h) == {k \in 1..Len(real) : real[k].datetime = h}

\* value is the arithmetic mean of the samples of hour h
IsMeanOfHour(value, h) ==
    /\ IsFinite(value)
    /\ value.n * Len(SampleValues(h)) = SumSeq(SampleValues(h)) * value.d

\* C7: for the selected station, an hour with samples has exactly one hourly
\* Online row, whose value is the arithmetic mean of the samples floored to
\* that hour, and an hour without samples has no hourly Online row at all.
C7_HourlyMeanNoEmptyRows ==
    cpc = "done" =>
        \A h \in CmpHours :
            IF SamplesOfHour(h) = <<>>
            THEN RealRowsOfHour(h) = {}
            ELSE /\ Cardinality(RealRowsOfHour(h)) = 1
                 /\ \A k \in RealRowsOfHour(h) : IsMeanOfHour(real[k].cmg_real, h)

MinNat(a, b) == IF a <= b THEN a ELSE b

\* C8: the merged set has at most min(|hourly Online|, |Programmed of the
\* mapped station|) rows, and the hour of every merged row is the floored
\* timestamp of an Online sample of the selected station and of a Programmed
\* row of the mapped station.
C8_StrictInnerJoin ==
    cpc = "done" =>
        /\ Len(merged) <= MinNat(Len(real), Len(prog))
        /\ \A i \in 1..Len(merged) :
              /\ SamplesOfHour(merged[i].datetime) # <<>>
              /\ \E j \in 1..Len(df_prog) :
                    /\ df_prog[j].barra_prog = BARRAS[barra_online]
                    /\ Floor1h(df_prog[j].datetime) = merged[i].datetime

\* d is x - y, both finite
IsDifference(d, x, y) ==
    /\ IsFinite(d)
    /\ d.n * x.d * y.d = (x.n * y.d - y.n * x.d) * d.d

\* p is d / y * 100, d and y finite, y not 0
IsPercentage(p, d, y) ==
    /\ IsFinite(p)
    /\ p.n * d.d * y.n = 100 * d.n * y.d * p.d

ScenarioRow ==
    [datetime |-> 0, cmg_real |-> Num(25), cmg_programado |-> Num(20),
     diferencia |-> Num(5), diferencia_pct |-> Num(25)]

\* C9: in every merged row diferencia is cmg_real - cmg_programado and
\* diferencia_pct is diferencia / cmg_programado * 100 when cmg_programado
\* is not 0 and NaN when it is 0 (an hourly value that is NaN gives NaN in
\* both columns); samples 10, 20, 30, 40 in one hour against a programmed 20
\* give the single row realized 25, difference 5, percentage 25.
C9_Differences ==
    cpc = "done" =>
        /\ \A i \in 1..Len(merged) :
              LET m == merged[i] IN
              /\ IsFinite(m.cmg_programado)
              /\ IF IsFinite(m.cmg_real)
                 THEN IsDifference(m.diferencia, m.cmg_real, m.cmg_programado)
                 ELSE IsNaN(m.cmg_real) /\ IsNaN(m.diferencia)
              /\ IF m.cmg_programado.n = 0 \/ IsNaN(m.cmg_real)
                 THEN IsNaN(m.diferencia_pct)
                 ELSE IsPercentage(m.diferencia_pct, m.diferencia, m.cmg_programado)
        /\ (df_real = ScenarioReal /\ df_prog = ScenarioProg
              /\ barra_online = "P.MONTT_______220")
             => merged = <<ScenarioRow>>

\* the scenario has been computed
C9_Witness ==
    /\ cpc = "done"
    /\ df_real = ScenarioReal
    /\ df_prog = ScenarioProg
    /\ merged = <<ScenarioRow>>

----------------------------------------------------------------------------
(* Properties of actualizar_csv *)

\* C10: after a call of actualizar_csv, a second call with the same batch at
\* the same time leaves the stored file exactly as it is (same rows, same
\* order).
C10_Idempotent ==
    nombre_archivo # "none" =>
        MergeAndPrune(csv[nombre_archivo], df_nuevo, corte) = csv[nombre_archivo]

\* a call that merged a batch with duplicate keys into older stored rows and
\* pruned a row of the batch
C10_Witness ==
    /\ nombre_archivo = "cmg_online.csv"
    /\ \E i, j \in 1..Len(df_nuevo) : i # j /\ SameKey(df_nuevo[i], df_nuevo[j])
    /\ \E i \in 1..Len(df_nuevo) : df_nuevo[i].datetime < corte
    /\ \E k \in 1..Len(csv[nombre_archivo].rows) :
          \A i \in 1..Len(df_nuevo) :
              ~SameKey(read_csv(csv[nombre_archivo])[k], df_nuevo[i])

----------------------------------------------------------------------------
(* Properties of the collector run *)

\* C6: a run started with a credential never lets an exception leave main:
\* whatever the API answers, the run is either at its end with the
\* last-updated time written, or before its next step (about to start, or
\* waiting for the answer to a request).
C6_RunReachesEnd ==
    USER_KEY # "" =>
        /\ mpc # "raised"
        /\ mpc = "done" => ultima = UltimaAt(now)
        /\ mpc # "done" => (mpc = "start" \/ (mpc \in {"online", "programado"} /\ fpc = "request"))

----------------------------------------------------------------------------
(* Retention and deduplication of actualizar_csv *)

\* the rows of the file the last call of actualizar_csv wrote, as read back
Persisted == read_csv(csv[nombre_archivo])

\* C11: after a call of actualizar_csv the persisted dataset holds no record
\* whose timestamp is earlier than now - DIAS_HISTORICO days (the call's
\* `corte`), whether it came from the stored data or from the new batch.
C11_Retention ==
    nombre_archivo # "none" =>
        /\ csv[nombre_archivo].exists
        /\ \A i \in 1..Len(Persisted) : Persisted[i].datetime >= corte

\* a call that found a stored row older than the cut, was handed a batch with
\* a row older than the cut, and kept a row of each origin
C11_Witness ==
    /\ nombre_archivo # "none"
    /\ \E i \in 1..Len(df_existente) : df_existente[i].datetime < corte
    /\ \E i \in 1..Len(df_nuevo) : df_nuevo[i].datetime < corte
    /\ \E i \in 1..Len(Persisted) :
          /\ \E j \in 1..Len(df_existente) : df_existente[j] = Persisted[i]
          /\ \A j \in 1..Len(df_nuevo) : ~SameKey(df_nuevo[j], Persisted[i])
    /\ \E i \in 1..Len(Persisted) :
          /\ \E j \in 1..Len(df_nuevo) : df_nuevo[j] = Persisted[i]
          /\ \A j \in 1..Len(df_existente) : ~SameKey(df_existente[j], Persisted[i])

\* the rows of s with the key of r
WithKey(s, r) == SelectSeq(s, LAMBDA x : SameKey(x, r))

\* the last row of s with the key of r
LastSeen(s, r) == WithKey(s, r)[Len(WithKey(s, r))]

\* C12: after a call of actualizar_csv the persisted dataset has at most one
\* record per (timestamp, station) key and holds only records of the stored
\* data or the batch; a key of the batch that is within the retention window
\* is persisted with the batch's last record for it, whatever the stored data
\* held; a key of the stored data only that is within the retention window
\* keeps its stored record.
C12_LastSeenWins ==
    nombre_archivo # "none" =>
        /\ \A i, j \in 1..Len(Persisted) : SameKey(Persisted[i], Persisted[j]) => i = j
        /\ \A i \in 1..Len(Persisted) :
              \/ \E j \in 1..Len(df_nuevo) : df_nuevo[j] = Persisted[i]
              \/ \E j \in 1..Len(df_existente) : df_existente[j] = Persisted[i]
        /\ \A j \in 1..Len(df_nuevo) :
              df_nuevo[j].datetime >= corte =>
                  \E i \in 1..Len(Persisted) : Persisted[i] = LastSeen(df_nuevo, df_nuevo[j])
        /\ \A j \in 1..Len(df_existente) :
              (/\ df_existente[j].datetime >= corte
               /\ WithKey(df_nuevo, df_existente[j]) = <<>>) =>
                  \E i \in 1..Len(Persisted) :
                      Persisted[i] = LastSeen(df_existente, df_existente[j])

\* a call whose batch holds one key twice with two values, the stored data
\* holding that key with the value the batch has first, and the stored data
\* holding another key the batch has not; both keys are within the window
C12_Witness ==
    /\ nombre_archivo # "none"
    /\ \E a, b \in 1..Len(df_nuevo), e \in 1..Len(df_existente) :
          /\ a < b
          /\ SameKey(df_nuevo[a], df_nuevo[b])
          /\ df_nuevo[a].cmg # df_nuevo[b].cmg
          /\ df_existente[e] = df_nuevo[a]
          /\ df_nuevo[b].datetime >= corte
          /\ \E i \in 1..Len(Persisted) : Persisted[i] = df_nuevo[b]
    /\ \E e \in 1..Len(df_existente) :
          /\ WithKey(df_nuevo, df_existente[e]) = <<>>
          /\ df_existente[e].datetime >= corte
          /\ \E i \in 1..Len(Persisted) : Persisted[i] = df_existente[e]

----------------------------------------------------------------------------
(* The order of a collector run *)

EvHoy == <<"fetch_online", "hoy">>
EvAyer == <<"fetch_online", "ayer">>
EvMergeOnline == <<"actualizar_csv", "cmg_online.csv">>
EvProgramado == <<"fetch_programado">>
EvMergeProgramado == <<"actualizar_csv", "cmg_programado.csv">>
EvUltima == <<"write_ultima">>

\* the histories of a run as the claim has them: today's Online fetch, then
\* yesterday's if today's gave nothing, one merge of the first date that
\* gave records, then the Programmed fetch, its merge if it gave records,
\* and the last-updated write
OnlineSteps == {<<EvHoy, EvMergeOnline>>, <<EvHoy, EvAyer, EvMergeOnline>>, <<EvHoy, EvAyer>>}
ProgramadoSteps == {<<EvProgramado, EvUltima>>, <<EvProgramado, EvMergeProgramado, EvUltima>>}
FullRuns == {o \o p : o \in OnlineSteps, p \in ProgramadoSteps}

IsPrefix(s, t) == Len(s) <= Len(t) /\ s = SubSeq(t, 1, Len(s))

LastEvent == events[Len(events)]

\* the order of the steps of a run and what decides them; when
\* `ended` the run has also done all of them
RunOrder(ended) ==
    /\ \E r \in FullRuns : IsPrefix(events, r)
    /\ Cardinality({i \in 1..Len(events) : events[i] = EvMergeOnline}) <= 1
    \* yesterday is fetched only when today's fetch gave no matching record
    /\ LastEvent = EvAyer => fetch_online_frame(fetched_records) = <<>>
    \* the Programmed fetch starts after the merge of the Online frame, or
    \* after both dates gave no matching record
    /\ LastEvent = EvProgramado =>
          IF fetch_online_frame(fetched_records) # <<>>
          THEN /\ events[Len(events) - 1] = EvMergeOnline
               /\ df_nuevo = fetch_online_frame(fetched_records)
          ELSE events = <<EvHoy, EvAyer, EvProgramado>>
    /\ ended => events \in FullRuns

\* C13: in a collector run the Online dataset is fetched for today first and
\* for yesterday only if today's fetch yields no station-matching record, the
\* first date that yields records is merged and no later date is fetched (at
\* most one Online merge per run), and the Programmed fetch and the
\* last-updated write happen after the Online step whatever its outcome: a
\* run that has ended has done them.
C13_OnlineThenProgramado ==
    (USER_KEY # "" /\ mpc # "start") => RunOrder(mpc \in {"done", "raised"})

----------------------------------------------------------------------------
(* A fetch that yields no records *)

\* this step ends the fetch_paginated call main is waiting for
FetchEnds == mpc \in {"online", "programado"} /\ (Len(events') > Len(events) \/ mpc' = "raised")

\* this step ends the run
RunEnds == mpc \in {"online", "programado"} /\ mpc' \in {"done", "raised"}

\* the file of the dataset being fetched
FetchedFile == IF mpc = "online" THEN "cmg_online.csv" ELSE "cmg_programado.csv"

\* the frame of the fetch this step ends: of the records it returned, or of
\* the records it had when it failed
YieldedFrame ==
    LET recs == IF mpc' = "raised" THEN all_records' ELSE fetched_records'
    IN IF mpc = "online" THEN fetch_online_frame(recs) ELSE fetch_programado_frame(recs)

\* the step of a run where `ended` tells which steps end the run
YieldsNothingStep(ended) ==
    \* a file changes only when the fetch of its dataset yields records
    /\ \A f \in FileNames :
          csv'[f] # csv[f] => (FetchEnds /\ f = FetchedFile /\ YieldedFrame # <<>>)
    \* a fetch that yields no records leaves the files as they are
    /\ (FetchEnds /\ YieldedFrame = <<>>) => csv' = csv
    \* and the run, at its end, still overwrites the last-updated timestamp
    /\ (ended /\ (YieldedFrame = <<>> \/ \A i \in 1..Len(events) : events[i] # EvMergeOnline))
          => ultima' = UltimaAt(now)

\* C14: in a collector run where the fetch for a dataset yields no records,
\* including when the fetch failed on its first page, that dataset's stored
\* file is left exactly unchanged (nothing merged, nothing pruned), while the
\* last-updated timestamp is still overwritten at the end of the run.
C14_NoRecordsNoChange == [][YieldsNothingStep(RunEnds)]_vars
============================================================================
